---- MODULE Spec2Model ----
(***************************************************************************)
(* A model of the addressing and identity core of elfo: NodeNo,            *)
(* NodeLaunchId, GroupNo and Addr (elfo-core/src/addr.rs), the envelope    *)
(* (elfo-core/src/envelope.rs) and the router of the network group         *)
(* (elfo-network/src/lib.rs).                                              *)
(*                                                                         *)
(* A u64 is a tuple of 8 bytes, least significant first: TLC's integers    *)
(* are 32 bits wide, and every shift and mask of addr.rs is a multiple of  *)
(* 8 bits, so the byte tuple is exact.  u8 and u16 values are integers.    *)
(* An Option is a tuple: <<>> is None and <<v>> is Some(v).                *)
(***************************************************************************)
EXTENDS Integers, Sequences, FiniteSets, TLC

VARIABLES
    network,     \* cfg!(feature = "network"), fixed at build time
    launch_id,   \* the NodeLaunchId of the running process
    gn,          \* the last call of GroupNo::new: its arguments and result
    group_set,   \* tests::group_no: the set collected for one launch id
    made,        \* tests::addr: the last two addresses made by Addr::new_local
    slab,        \* the live objects of the process: group, slot key, address
    cur,         \* an Addr value held by a caller
    last,        \* the last operation applied to it: arguments and result
    book,        \* the address book: the object, if any, behind each address
    env,         \* an envelope in flight, if any
    result,      \* the last operation on the envelope: what it saw and returned
    routed,      \* the last two envelopes routed by the network group, with outcomes
    shown,       \* the text of the last to_string() of the Addr value, if it still is current
    chain,       \* ErrorChain::fmt under way: the error given, the cursor, the text written
    builder,     \* an ActorGroup being built, up to the Supervisor of its Blueprint
    letter       \* an envelope in the hands of its owner, as it was made and as it is now

vars == <<network, launch_id, gn, group_set, made, slab, cur, last, book, env, result, routed, shown, chain, builder, letter>>

\* ------------------------------------------------------------ integers

U8Max == 255

NODE_NO_SHIFT == 48

GROUP_NO_SHIFT == 40

ByteCount == 8

Byte == 0..U8Max

None == <<>>

Some(v) == <<v>>

RECURSIVE XorBits(_, _, _)
XorBits(a, b, n) ==
    IF n = 0 THEN 0
    ELSE (((a % 2) + (b % 2)) % 2) + 2 * XorBits(a \div 2, b \div 2, n - 1)

RECURSIVE OrBits(_, _, _)
OrBits(a, b, n) ==
    IF n = 0 THEN 0
    ELSE (IF (a % 2) + (b % 2) > 0 THEN 1 ELSE 0) + 2 * OrBits(a \div 2, b \div 2, n - 1)

\* a ^ b and a | b on 4 bits, tabulated once
XorNibble == [a \in 0..15 |-> [b \in 0..15 |-> XorBits(a, b, 4)]]

OrNibble == [a \in 0..15 |-> [b \in 0..15 |-> OrBits(a, b, 4)]]

\* a ^ b on u8
Xor8(a, b) == XorNibble[a % 16][b % 16] + 16 * XorNibble[a \div 16][b \div 16]

\* a | b on u8
Or8(a, b) == OrNibble[a % 16][b % 16] + 16 * OrNibble[a \div 16][b \div 16]

\* a ^ b on u64
Xor64(x, y) == [i \in 1..ByteCount |-> Xor8(x[i], y[i])]

\* a | b on u64
Or64(x, y) == [i \in 1..ByteCount |-> Or8(x[i], y[i])]

\* x & ((1 << shift) - 1) on u64, shift a multiple of 8
LowBits(x, shift) == [i \in 1..ByteCount |-> IF i <= shift \div 8 THEN x[i] ELSE 0]

\* (x >> shift) as u8
ShrU8(x, shift) == x[shift \div 8 + 1]

\* (x >> shift) as u16
ShrU16(x, shift) == x[shift \div 8 + 1] + 256 * x[shift \div 8 + 2]

\* u64::from(b) << shift for a u8
ShlU8(b, shift) == [i \in 1..ByteCount |-> IF i = shift \div 8 + 1 THEN b ELSE 0]

\* (w as u64) << shift for a u16
ShlU16(w, shift) ==
    [i \in 1..ByteCount |->
        IF i = shift \div 8 + 1 THEN w % 256
        ELSE IF i = shift \div 8 + 2 THEN w \div 256
        ELSE 0]

Zero64 == [i \in 1..ByteCount |-> 0]

\* the u64 below 2^40 whose low 5 bytes are given
U40(b0, b1, b2, b3, b4) == <<b0, b1, b2, b3, b4, 0, 0, 0>>

\* ------------------------------------------------------------ NodeNo

NonZeroU16New(bits) == IF bits = 0 THEN None ELSE Some(bits)

NonZeroU8New(bits) == IF bits = 0 THEN None ELSE Some(bits)

NodeNoFromBits(bits) == NonZeroU16New(bits)

NodeNoIntoBits(node_no) == node_no

\* ------------------------------------------------------------ NodeLaunchId

NodeLaunchIdFromBits(bits) == bits

NodeLaunchIdIntoBits(lid) == lid

\* ------------------------------------------------------------ GroupNo

\* GroupNoXor without the branch for no = xor
GroupNoXorAlways(no, lid) == Xor8(no, ShrU8(NodeLaunchIdIntoBits(lid), GROUP_NO_SHIFT))

\* the byte GroupNo::new hands to NonZeroU8::new under the network feature
GroupNoXor(no, lid) ==
    LET xor == ShrU8(NodeLaunchIdIntoBits(lid), GROUP_NO_SHIFT)
    IN  IF no # xor THEN Xor8(no, xor) ELSE xor

\* the byte handed to NonZeroU8::new, by feature
GroupNoByte(net, no, lid) == IF net THEN GroupNoXor(no, lid) ELSE no

\* GroupNo::new: None for no = 0, else Some(stored byte)
GroupNoNew(net, no, lid) ==
    IF no = 0 THEN None ELSE Some(GroupNoByte(net, no, lid))

\* whether the unwrap() of GroupNo::new panics (network feature only)
GroupNoNewPanics(net, no, lid) ==
    net /\ no # 0 /\ NonZeroU8New(GroupNoXor(no, lid)) = None

GroupNoFromBits(bits) == NonZeroU8New(bits)

GroupNoIntoBits(g) == g

\* ------------------------------------------------------------ Addr

AddrNULL == Zero64

\* new_local_inner shifting the group number by 32 bits instead of 40
AddrNewLocalInnerShift32(slot_key, group_no) ==
    Or64(ShlU8(GroupNoIntoBits(group_no), GROUP_NO_SHIFT - 8), slot_key)

AddrNewLocalInner(slot_key, group_no) ==
    Or64(ShlU8(GroupNoIntoBits(group_no), GROUP_NO_SHIFT), slot_key)

\* new_local under the network feature without the 40-bit mask
AddrNewLocalNetworkUnmasked(slot_key, group_no, lid) ==
    AddrNewLocalInner(Xor64(slot_key, NodeLaunchIdIntoBits(lid)), group_no)

\* new_local under the network feature
AddrNewLocalNetwork(slot_key, group_no, lid) ==
    AddrNewLocalInner(
        LowBits(Xor64(slot_key, NodeLaunchIdIntoBits(lid)), GROUP_NO_SHIFT), group_no)

\* new_local without the network feature
AddrNewLocalPlain(slot_key, group_no, lid) == AddrNewLocalInner(slot_key, group_no)

AddrNewLocal(net, slot_key, group_no, lid) ==
    IF net THEN AddrNewLocalNetwork(slot_key, group_no, lid)
    ELSE AddrNewLocalPlain(slot_key, group_no, lid)

\* the debug_assert! of new_local
SlotKeyInRange(slot_key) == LowBits(slot_key, GROUP_NO_SHIFT) = slot_key

AddrIntoBits(addr) == addr

AddrIsNull(addr) == addr = AddrNULL

AddrNodeNo(addr) == NodeNoFromBits(ShrU16(addr, NODE_NO_SHIFT))

AddrGroupNo(addr) == GroupNoFromBits(ShrU8(addr, GROUP_NO_SHIFT))

\* is_local without the test for NULL
AddrIsLocalNoNull(addr) == AddrNodeNo(addr) = None

AddrIsLocal(addr) == ~AddrIsNull(addr) /\ AddrNodeNo(addr) = None

AddrIsRemote(addr) == AddrNodeNo(addr) # None

\* from_bits keeping only the words with a group number
AddrFromBitsGroupOnly(bits) ==
    IF AddrGroupNo(bits) # None THEN Some(bits) ELSE None

AddrFromBits(bits) ==
    IF AddrIsNull(bits) # (AddrGroupNo(bits) # None) THEN Some(bits) ELSE None

\* slot_key forgetting the launch id
AddrSlotKeyRaw(net, addr, lid) == addr

\* slot_key: the whole word, xored with the launch id under the network feature
AddrSlotKey(net, addr, lid) ==
    IF net THEN Xor64(addr, NodeLaunchIdIntoBits(lid)) ELSE addr

\* into_remote without the test for a local address
AddrIntoRemoteAlways(addr, node_no) ==
    Or64(addr, ShlU16(NodeNoIntoBits(node_no), NODE_NO_SHIFT))

AddrIntoRemote(addr, node_no) ==
    IF AddrIsLocal(addr)
    THEN Or64(addr, ShlU16(NodeNoIntoBits(node_no), NODE_NO_SHIFT))
    ELSE addr

\* into_local clearing the group number as well
AddrIntoLocalSlotOnly(addr) == LowBits(addr, GROUP_NO_SHIFT)

AddrIntoLocal(addr) == LowBits(addr, NODE_NO_SHIFT)

\* ------------------------------------------------------------ Display of Addr

\* A text is a sequence of characters.  The decimal digits, by value + 1:
DecDigits == <<"0", "1", "2", "3", "4", "5", "6", "7", "8", "9">>

\* "{}" of a u8 or a u16: its decimal digits, most significant first
RECURSIVE DecInt(_)
DecInt(n) ==
    IF n < 10 THEN <<DecDigits[n + 1]>>
    ELSE Append(DecInt(n \div 10), DecDigits[(n % 10) + 1])

\* long division of a u64 by ten: the remainder left after bytes i..8
RECURSIVE RemU64(_, _)
RemU64(x, i) ==
    IF i > ByteCount THEN 0 ELSE ((RemU64(x, i + 1) * 256) + x[i]) % 10

Div10(x) == [ i \in 1..ByteCount |-> ((RemU64(x, i + 1) * 256) + x[i]) \div 10 ]

Mod10(x) == RemU64(x, 1)

\* "{}" of a u64: its decimal digits, most significant first
DecU64(x) ==
    LET digits[y \in [1..ByteCount -> Byte]] ==
            LET q == Div10(y)
            IN  IF q = Zero64 THEN <<DecDigits[Mod10(y) + 1]>>
                ELSE Append(digits[q], DecDigits[Mod10(y) + 1])
    IN  digits[x]

\* derive(Display) of NodeNo and of GroupNo: the number inside
NodeNoDisplay(node_no) == DecInt(NodeNoIntoBits(node_no))

GroupNoDisplay(group_no) == DecInt(GroupNoIntoBits(group_no))

\* the bottom of Display taken below the node number, group bits included
AddrBottomWide(addr) == LowBits(addr, NODE_NO_SHIFT)

\* let bottom = self.0 & ((1 << GROUP_NO_SHIFT) - 1)
AddrBottom(addr) == LowBits(addr, GROUP_NO_SHIFT)

\* whether expect("invalid addr") of Display panics
AddrDisplayPanics(addr) == ~AddrIsNull(addr) /\ AddrGroupNo(addr) = None

\* the text Display writes, for an address it does not panic on
AddrDisplay(addr) ==
    IF AddrIsNull(addr) THEN <<"n", "u", "l", "l">>
    ELSE LET group_no == AddrGroupNo(addr)[1]
             bottom == AddrBottom(addr)
         IN  IF AddrNodeNo(addr) # None
             THEN NodeNoDisplay(AddrNodeNo(addr)[1]) \o <<"/">>
                    \o GroupNoDisplay(group_no) \o <<"/">> \o DecU64(bottom)
             ELSE GroupNoDisplay(group_no) \o <<"/">> \o DecU64(bottom)

\* addr.to_string(): the text, or the panic
AddrToString(addr) ==
    IF AddrDisplayPanics(addr) THEN [ panicked |-> TRUE, text |-> <<>> ]
    ELSE [ panicked |-> FALSE, text |-> AddrDisplay(addr) ]

\* ------------------------------------------------------------ Envelope

\* the trace id Envelope::new gives every envelope
TraceIdDefault == 1

\* a response token: the requesting actor's address and the handle of the
\* request in that actor's request table
ResponseToken(sender, request_id) == [ sender |-> sender, request_id |-> request_id ]

MessageKindRegular(sender) == [ variant |-> "Regular", sender |-> sender ]

MessageKindRequestAny(token) == [ variant |-> "RequestAny", token |-> token ]

MessageKindRequestAll(token) == [ variant |-> "RequestAll", token |-> token ]

\* a message of a type, not yet erased
Message(type, value) == [ erased |-> FALSE, type |-> type, value |-> value ]

AnyMessageNew(message) == [ erased |-> TRUE, type |-> message.type, value |-> message.value ]

EnvelopeNew(message, kind) ==
    [ trace_id |-> TraceIdDefault, kind |-> kind, message |-> message ]

EnvelopeSender(e) ==
    CASE e.kind.variant = "Regular"    -> e.kind.sender
      [] e.kind.variant = "RequestAny" -> e.kind.token.sender
      [] e.kind.variant = "RequestAll" -> e.kind.token.sender

EnvelopeUpcast(e) ==
    [ trace_id |-> e.trace_id, kind |-> e.kind, message |-> AnyMessageNew(e.message) ]

\* AnyMessage::is: the tag of the payload is that of M
AnyMessageIs(message, type) == message.type = type

\* AnyMessage::downcast: a tag comparison plus a cast
AnyMessageDowncast(message, type) ==
    IF AnyMessageIs(message, type) THEN Some(Message(type, message.value)) ELSE None

\* whether expect("cannot downcast") of do_downcast panics
EnvelopeDoDowncastPanics(e, type) == AnyMessageDowncast(e.message, type) = None

\* do_downcast, for an envelope it does not panic on
EnvelopeDoDowncast(e, type) ==
    [ trace_id |-> e.trace_id, kind |-> e.kind,
      message |-> AnyMessageDowncast(e.message, type)[1] ]

\* set_message making a new regular envelope from the sender
EnvelopeSetMessageNew(e, message) ==
    EnvelopeUpcast(EnvelopeNew(message, MessageKindRegular(EnvelopeSender(e))))

EnvelopeSetMessage(e, message) == [ e EXCEPT !.message = AnyMessageNew(message) ]

\* AddressBook::get: the object behind an address
BookGet(b, addr) == IF addr \in DOMAIN b THEN b[addr] ELSE None

\* Object::as_actor
ObjectAsActor(object) == IF object.kind = "Actor" THEN Some(object) ELSE None

\* RequestTable::clone_token: a sibling token of a request that is still open
CloneToken(requests, token) ==
    IF requests[token.request_id] > 0
    THEN Some(ResponseToken(token.sender, token.request_id))
    ELSE None

\* the token of a request envelope, cloned through the sender's request table
DuplicateToken(token, b) ==
    LET object == BookGet(b, token.sender)
    IN  IF object = None THEN None
        ELSE LET actor == ObjectAsActor(object[1])
             IN  IF actor = None THEN None
                 ELSE CloneToken(actor[1].requests, token)

\* the match of Envelope::duplicate with the RequestAll arm making a RequestAny
DuplicateKindAny(kind, b) ==
    IF kind.variant = "Regular" THEN Some(MessageKindRegular(kind.sender))
    ELSE LET token == DuplicateToken(kind.token, b)
         IN  IF token = None THEN None ELSE Some(MessageKindRequestAny(token[1]))

\* the match of Envelope::duplicate: the kind of the copy, None where a ? returns
DuplicateKind(kind, b) ==
    CASE kind.variant = "Regular" -> Some(MessageKindRegular(kind.sender))
      [] kind.variant = "RequestAny" ->
            LET token == DuplicateToken(kind.token, b)
            IN  IF token = None THEN None ELSE Some(MessageKindRequestAny(token[1]))
      [] kind.variant = "RequestAll" ->
            LET token == DuplicateToken(kind.token, b)
            IN  IF token = None THEN None ELSE Some(MessageKindRequestAll(token[1]))

EnvelopeDuplicate(e, b) ==
    LET kind == DuplicateKind(e.kind, b)
    IN  IF kind = None THEN None
        ELSE Some([ trace_id |-> e.trace_id, kind |-> kind[1], message |-> e.message ])

\* EnvelopeOwned::unpack_regular and EnvelopeBorrowed::unpack_regular
UnpackRegularPanics(e) == FALSE

EnvelopeUnpackRegular(e) == e.message

\* unpack_request with the RequestAny arm missing
UnpackRequestPanicsOnAny(e) == e.kind.variant # "RequestAll"

\* EnvelopeOwned::unpack_request: unreachable!() on a Regular envelope
UnpackRequestPanics(e) == e.kind.variant \notin { "RequestAny", "RequestAll" }

EnvelopeUnpackRequest(e) == << e.message, e.kind.token >>

\* ------------------------------------------------------------ network router

ActorKeyDiscovery == [ tag |-> "Discovery" ]

ActorKeyWorker(local, remote) == [ tag |-> "Worker", local |-> local, remote |-> remote ]

OutcomeUnicast(key) == [ tag |-> "Unicast", key |-> key ]

OutcomeDefault == [ tag |-> "Default" ]

\* the closure with the local and remote group infos exchanged
NetworkRouterSwapped(envelope) ==
    CASE envelope.message.type = "UpdateConfig" -> OutcomeUnicast(ActorKeyDiscovery)
      [] envelope.message.type = "HandleConnection" ->
            OutcomeUnicast(ActorKeyWorker(envelope.message.value.remote,
                                          envelope.message.value.local))
      [] OTHER -> OutcomeDefault

\* the closure given to MapRouter::new: msg!(match envelope { .. })
NetworkRouter(envelope) ==
    CASE envelope.message.type = "UpdateConfig" -> OutcomeUnicast(ActorKeyDiscovery)
      [] envelope.message.type = "HandleConnection" ->
            OutcomeUnicast(ActorKeyWorker(envelope.message.value.local,
                                          envelope.message.value.remote))
      [] OTHER -> OutcomeDefault

\* ------------------------------------------------------------ ErrorChain

\* an error: what its Display writes and what its source() returns
Error(display, source) == [ display |-> display, source |-> source ]

\* the error whose chain of causes displays as names, outermost first
RECURSIVE ErrorOf(_)
ErrorOf(names) ==
    Error(Head(names), IF Len(names) = 1 THEN None ELSE Some(ErrorOf(Tail(names))))

\* write!(f, "{}", self.0) into a String
ErrorChainWriteFirst(out, err) == Append(out, err.display)

\* the write of the loop with the separator after the cause
ErrorChainWriteSepAfter(out, err) == Append(Append(out, err.display), ": ")

\* write!(f, ": {}", err) into a String
ErrorChainWrite(out, err) == Append(Append(out, ": "), err.display)

\* ------------------------------------------------------------ ActorGroup

RestartPolicyAlways == [ mode |-> "Always" ]

RestartPolicyOnFailures == [ mode |-> "OnFailures" ]

RestartPolicyNever == [ mode |-> "Never" ]

RestartPolicyDefault == RestartPolicyOnFailures

TerminationPolicyClosing == [ stop_spawning |-> TRUE, close_mailbox |-> TRUE ]

TerminationPolicyManually == [ stop_spawning |-> TRUE, close_mailbox |-> FALSE ]

TerminationPolicyDefault == TerminationPolicyClosing

\* ActorGroup::new(): the default policies, the router () and the config ()
ActorGroupNew ==
    [ restart_policy |-> RestartPolicyDefault,
      termination_policy |-> TerminationPolicyDefault,
      router |-> "()",
      config |-> "()" ]

ActorGroupConfig(group, c1) ==
    [ restart_policy |-> group.restart_policy,
      termination_policy |-> group.termination_policy,
      router |-> group.router,
      config |-> c1 ]

ActorGroupRestartPolicy(group, policy) == [ group EXCEPT !.restart_policy = policy ]

ActorGroupTerminationPolicy(group, policy) ==
    [ group EXCEPT !.termination_policy = policy ]

\* router() building the new group from ActorGroup::new()
ActorGroupRouterFresh(group, r1) ==
    [ ActorGroupNew EXCEPT !.router = r1, !.config = group.config ]

ActorGroupRouter(group, r1) ==
    [ restart_policy |-> group.restart_policy,
      termination_policy |-> group.termination_policy,
      router |-> r1,
      config |-> group.config ]

\* exec(): the Blueprint, whose run closure owns the group and exec
ActorGroupExec(group, exec) == [ run |-> [ group |-> group, exec |-> exec ] ]

\* Supervisor::new of the run closure: the arguments it is handed
SupervisorNew(exec, r, restart_policy, termination_policy) ==
    [ exec |-> exec, router |-> r, restart_policy |-> restart_policy,
      termination_policy |-> termination_policy ]

\* (blueprint.run)(ctx, name, rt_manager)
BlueprintRun(blueprint) ==
    SupervisorNew(blueprint.run.exec, blueprint.run.group.router,
                  blueprint.run.group.restart_policy,
                  blueprint.run.group.termination_policy)

\* ------------------------------------------------------------ inputs

\* 0xE1F0E1F0E1F0E1F0, the salt of NodeLaunchId::generate, as a launch id
SaltLaunchId == <<240, 225, 240, 225, 240, 225, 240, 225>>

\* the launch ids a process may draw: zero, one whose byte 5 is a small group
\* number and whose slot bits are not zero, the salt, one with only top bits
LaunchIds ==
    { Zero64, <<1, 0, 0, 0, 0, 2, 0, 0>>, SaltLaunchId, <<0, 0, 0, 0, 0, 0, 0, 128>> }

\* the largest logical group number that is registered
MaxGroupNo == 3

GroupNos == 1..MaxGroupNo

\* slot keys below 2^40: 0, 1, 0x1234 and 2^40 - 1
SlotKeys ==
    { Zero64, U40(1, 0, 0, 0, 0), U40(52, 18, 0, 0, 0), U40(255, 255, 255, 255, 255) }

\* node numbers of remote nodes
NodeNos == { 42, 65535 }

\* words handed to Addr::from_bits: every combination of a zero or nonzero
\* node_no, group_no and slot field; they include 0 and 1
BitsInputs ==
    { Or64(Or64(ShlU16(n, NODE_NO_SHIFT), ShlU8(g, GROUP_NO_SHIFT)), k) :
        n \in {0, 42}, g \in {0, 3}, k \in {Zero64, U40(1, 0, 0, 0, 0)} }

\* no operation applied yet
NoOp == [ op |-> "none", before |-> AddrNULL, bits |-> Zero64, node_no |-> 0, res |-> None ]

\* the addresses of two actors and of their group, and NULL
ActorAddrs ==
    { AddrNewLocalInner(U40(1, 0, 0, 0, 0), 3), AddrNewLocalInner(U40(2, 0, 0, 0, 0), 3) }

GroupAddr == AddrNewLocalInner(Zero64, 3)

EnvAddrs == ActorAddrs \cup { GroupAddr, AddrNULL }

\* the most requests an actor has open at once
MaxRequests == 1

RequestIds == 1..MaxRequests

\* the most tokens of one request
MaxExpected == 2

MessageTypes == { "Ping", "Ask" }

\* the objects of the address book
GroupObject == [ kind |-> "Group" ]

ActorObject(requests) == [ kind |-> "Actor", requests |-> requests ]

\* the book once the group is mounted: no actor yet
InitBook ==
    [ a \in EnvAddrs |-> IF a = GroupAddr THEN Some(GroupObject) ELSE None ]

\* no operation on an envelope yet
NoResult ==
    [ op |-> "none", env |-> None, present |-> FALSE, actor |-> FALSE, open |-> FALSE,
      panicked |-> FALSE, res |-> None ]

\* group infos: a node number and a group name
GroupInfo(node_no, group_name) == [ node_no |-> node_no, group_name |-> group_name ]

GroupInfos == { GroupInfo(1, "a"), GroupInfo(2, "a"), GroupInfo(1, "b") }

\* the messages handed to the router of the network group
RouterMessages ==
    { Message("UpdateConfig", 0), Message("Ping", 0), Message("Ask", 0) }
    \cup { Message("HandleConnection", [ local |-> l, remote |-> r ]) :
             l \in GroupInfos, r \in GroupInfos }

\* the most objects alive at once
MaxLive == 3

\* the longest chain of errors formatted
MaxChain == 3

\* what the errors of the tests display
ErrorNames == { "outer", "inner", "innermost" }

\* the chains formatted: every sequence of 1..MaxChain displays
ErrorChains == UNION { [1..n -> ErrorNames] : n \in 1..MaxChain }

\* no ErrorChain formatted yet
NoChain == [ pc |-> "idle", errors |-> <<>>, cursor |-> None, out |-> <<>> ]

\* the policies, routers and configs handed to the builder
RestartPolicies == { RestartPolicyAlways, RestartPolicyOnFailures, RestartPolicyNever }

TerminationPolicies == { TerminationPolicyClosing, TerminationPolicyManually }

Routers == { "MapRouter" }

Configs == { "Config" }

\* nothing built yet; set_restart and set_termination are the arguments of the
\* last restart_policy() and termination_policy() calls on the group, call is
\* the last builder call and before the policies the group had before it
NoBuilder ==
    [ stage |-> "none", group |-> None, blueprint |-> None, sv |-> None,
      set_restart |-> None, set_termination |-> None,
      call |-> "none", before |-> None ]

\* the payloads put into an envelope
MessageValues == { 0, 1 }

\* the kinds an envelope is made with
MessageKinds ==
    { MessageKindRegular(sender) : sender \in EnvAddrs }
      \cup { MessageKindRequestAny(ResponseToken(a, id)) : a \in ActorAddrs, id \in RequestIds }
      \cup { MessageKindRequestAll(ResponseToken(a, id)) : a \in ActorAddrs, id \in RequestIds }

\* no envelope in hand
NoLetter == [ e |-> None, made |-> None, call |-> "none", panicked |-> FALSE ]

\* ------------------------------------------------------------ initial state

\* nothing called, nothing alive, nothing in flight
InitIdle ==
    /\ gn = None
    /\ group_set = None
    /\ made = <<>>
    /\ slab = {}
    /\ cur = AddrNULL
    /\ last = NoOp
    /\ book = InitBook
    /\ env = None
    /\ result = NoResult
    /\ routed = <<>>
    /\ shown = None
    /\ chain = NoChain
    /\ builder = NoBuilder
    /\ letter = NoLetter

Init ==
    /\ network \in BOOLEAN
    /\ launch_id \in LaunchIds
    /\ InitIdle

\* ------------------------------------------------------------ GroupNo calls

\* one call GroupNo::new(no, launch_id)
GroupNoNewCall(no) ==
    /\ gn' = Some([ no       |-> no,
                    lid      |-> launch_id,
                    res      |-> GroupNoNew(network, no, launch_id),
                    panicked |-> GroupNoNewPanics(network, no, launch_id) ])
    /\ UNCHANGED <<network, launch_id, group_set, made, slab, cur, last, book, env, result, routed, shown, chain, builder, letter>>

\* the body of the loop of tests::group_no for the current launch id
GroupNoTest ==
    /\ group_set' = Some([ lid  |-> launch_id,
                           zero |-> GroupNoNew(network, 0, launch_id),
                           set  |-> { GroupNoNew(network, no, launch_id) : no \in 1..U8Max } ])
    /\ UNCHANGED <<network, launch_id, gn, made, slab, cur, last, book, env, result, routed, shown, chain, builder, letter>>

NextGroupNo ==
    \/ \E no \in Byte : GroupNoNewCall(no)
    \/ GroupNoTest

SpecGroupNo == Init /\ [][NextGroupNo]_vars

\* C3: for every launch id, GroupNo::new(0, _) is None, GroupNo::new(no, _) for
\* no in 1..=255 is Some of a nonzero byte without panicking, and the 255
\* logical numbers map onto exactly the 255 stored bytes 1..=255.
GroupNoBijection ==
    /\ gn # None =>
          LET r == gn[1]
          IN  /\ ~r.panicked
              /\ (r.no = 0) <=> (r.res = None)
              /\ r.no # 0 => r.res[1] \in 1..U8Max
    /\ group_set # None =>
          LET t == group_set[1]
          IN  /\ t.zero = None
              /\ Cardinality(t.set) = U8Max
              /\ t.set = { Some(b) : b \in 1..U8Max }

\* the network build has mapped the group number equal to the xor byte, and the
\* whole table was collected for a launch id whose xor byte is not zero
GroupNoBijectionWitness ==
    /\ network
    /\ gn # None /\ gn[1].no = ShrU8(gn[1].lid, GROUP_NO_SHIFT) /\ gn[1].no # 0
    /\ group_set # None /\ ShrU8(group_set[1].lid, GROUP_NO_SHIFT) # 0

\* ------------------------------------------------------------ Addr::new_local

\* NodeLaunchId::generate at the start of a process: a fresh random value
Generate ==
    /\ launch_id' \in LaunchIds \ {launch_id}
    /\ UNCHANGED <<network, gn, group_set, made, slab, cur, last, book, env, result, routed, shown, chain, builder, letter>>

\* the window of the last two records
Remember(window, r) ==
    IF Len(window) < 2 THEN Append(window, r) ELSE <<window[2], r>>

\* the body of the loop of tests::addr: GroupNo::new(no, lid).unwrap(), then
\* Addr::new_local(slot_key, group_no, lid)
NewLocal(slot_key, no) ==
    /\ SlotKeyInRange(slot_key)
    /\ GroupNoNew(network, no, launch_id) # None
    /\ LET group_no == GroupNoNew(network, no, launch_id)[1]
           addr == AddrNewLocal(network, slot_key, group_no, launch_id)
       IN  made' = Remember(made, [ slot_key |-> slot_key,
                                    no       |-> no,
                                    lid      |-> launch_id,
                                    group_no |-> group_no,
                                    addr     |-> addr ])
    /\ UNCHANGED <<network, launch_id, gn, group_set, slab, cur, last, book, env, result, routed, shown, chain, builder, letter>>

NextAddr ==
    \/ Generate
    \/ \E slot_key \in SlotKeys, no \in GroupNos : NewLocal(slot_key, no)

SpecAddr == Init /\ [][NextAddr]_vars

AddrRoundTrips ==
    \A i \in DOMAIN made :
        LET r == made[i]
        IN  /\ AddrFromBits(AddrIntoBits(r.addr)) = Some(r.addr)
            /\ AddrIntoLocal(r.addr) = r.addr
            /\ AddrGroupNo(r.addr) = Some(r.group_no)
            /\ AddrNodeNo(r.addr) = None
            /\ LowBits(AddrSlotKey(network, r.addr, r.lid), GROUP_NO_SHIFT) = r.slot_key

\* an address of the network build whose stored slot bits differ from the slot
\* key it was made from, and one of the plain build
AddrRoundTripsWitness ==
    /\ Len(made) = 2
    /\ LowBits(made[2].addr, GROUP_NO_SHIFT) # made[2].slot_key
    /\ made[2].slot_key # Zero64
    /\ made[2].group_no # made[2].no

\* ------------------------------------------------------------ the object slab

\* An object of group `no` is inserted: the slab hands out a slot key no live
\* object of that group holds, and the object's address is made from it.
Insert(no, slot_key) ==
    /\ Cardinality(slab) < MaxLive
    /\ SlotKeyInRange(slot_key)
    /\ \A e \in slab : ~(e.no = no /\ e.slot_key = slot_key)
    /\ GroupNoNew(network, no, launch_id) # None
    /\ LET group_no == GroupNoNew(network, no, launch_id)[1]
       IN  slab' = slab \cup { [ no       |-> no,
                                 slot_key |-> slot_key,
                                 addr     |-> AddrNewLocal(network, slot_key, group_no, launch_id) ] }
    /\ UNCHANGED <<network, launch_id, gn, group_set, made, cur, last, book, env, result, routed, shown, chain, builder, letter>>

\* A live object is removed; its slot key may be handed out again.
Remove(e) ==
    /\ e \in slab
    /\ slab' = slab \ {e}
    /\ UNCHANGED <<network, launch_id, gn, group_set, made, cur, last, book, env, result, routed, shown, chain, builder, letter>>

NextSlab ==
    \/ \E no \in GroupNos, slot_key \in SlotKeys : Insert(no, slot_key)
    \/ \E e \in slab : Remove(e)

SpecSlab == Init /\ [][NextSlab]_vars

\* C2: within one launch, two objects alive at once have different addresses,
\* and objects of different logical groups never share an address.
AliveAddrsDistinct ==
    \A e1, e2 \in slab :
        /\ e1 # e2 => e1.addr # e2.addr
        /\ e1.no # e2.no => e1.addr # e2.addr

\* a full slab in which one slot key is held at once by objects of two groups,
\* under a launch id that changes both the group and the slot bits
AliveAddrsDistinctWitness ==
    /\ network
    /\ ShrU8(launch_id, GROUP_NO_SHIFT) # 0
    /\ \E e1, e2 \in slab :
          /\ e1.no # e2.no
          /\ e1.slot_key = e2.slot_key
          /\ e1.addr # e2.addr
          /\ LowBits(e1.addr, GROUP_NO_SHIFT) # e1.slot_key
    /\ Cardinality(slab) = MaxLive

\* ------------------------------------------------------------ Addr operations

\* the caller makes a local address
OpNewLocal(slot_key, no) ==
    /\ SlotKeyInRange(slot_key)
    /\ GroupNoNew(network, no, launch_id) # None
    /\ LET group_no == GroupNoNew(network, no, launch_id)[1]
           addr == AddrNewLocal(network, slot_key, group_no, launch_id)
       IN  /\ cur' = addr
           /\ last' = [ op |-> "new_local", before |-> cur, bits |-> slot_key,
                        node_no |-> 0, res |-> Some(addr), no |-> no ]
    /\ shown' = None
    /\ UNCHANGED <<network, launch_id, gn, group_set, made, slab, book, env, result, routed, chain, builder, letter>>

\* the caller parses a word; it keeps the address when there is one
OpFromBits(bits) ==
    /\ LET res == AddrFromBits(bits)
       IN  /\ cur' = IF res # None THEN res[1] ELSE cur
           /\ last' = [ op |-> "from_bits", before |-> cur, bits |-> bits,
                        node_no |-> 0, res |-> res ]
    /\ shown' = None
    /\ UNCHANGED <<network, launch_id, gn, group_set, made, slab, book, env, result, routed, chain, builder, letter>>

\* addr.into_remote(node_no), of the network build only
OpIntoRemote(node_no) ==
    /\ network
    /\ NodeNoFromBits(node_no) # None
    /\ cur' = AddrIntoRemote(cur, node_no)
    /\ last' = [ op |-> "into_remote", before |-> cur, bits |-> Zero64,
                 node_no |-> node_no, res |-> Some(cur') ]
    /\ shown' = None
    /\ UNCHANGED <<network, launch_id, gn, group_set, made, slab, book, env, result, routed, chain, builder, letter>>

\* addr.into_local()
OpIntoLocal ==
    /\ cur' = AddrIntoLocal(cur)
    /\ last' = [ op |-> "into_local", before |-> cur, bits |-> Zero64,
                 node_no |-> 0, res |-> Some(cur') ]
    /\ shown' = None
    /\ UNCHANGED <<network, launch_id, gn, group_set, made, slab, book, env, result, routed, chain, builder, letter>>

\* addr.to_string(), the value kept
OpDisplay ==
    /\ shown' = Some(AddrToString(cur))
    /\ UNCHANGED <<network, launch_id, gn, group_set, made, slab, cur, last, book, env, result, routed, chain, builder, letter>>

NextAddrOps ==
    \/ OpDisplay
    \/ \E slot_key \in SlotKeys, no \in GroupNos : OpNewLocal(slot_key, no)
    \/ \E bits \in BitsInputs : OpFromBits(bits)
    \/ \E node_no \in NodeNos : OpIntoRemote(node_no)
    \/ OpIntoLocal

SpecAddrOps == Init /\ [][NextAddrOps]_vars

\* C5: from_bits(bits) is Some(addr) with addr.into_bits() = bits exactly when
\* bits is 0 or its group_no field (bits 47..40) is not 0, and None otherwise.
FromBitsAccepts ==
    last.op = "from_bits" =>
        LET valid == last.bits = Zero64 \/ last.bits[GROUP_NO_SHIFT \div 8 + 1] # 0
        IN  /\ valid => last.res # None /\ AddrIntoBits(last.res[1]) = last.bits
            /\ ~valid => last.res = None

\* from_bits has refused a word with a node number and no group number
FromBitsAcceptsWitness ==
    /\ last.op = "from_bits"
    /\ last.bits[NODE_NO_SHIFT \div 8 + 1] # 0
    /\ last.bits[GROUP_NO_SHIFT \div 8 + 1] = 0
    /\ last.res = None

\* C6: into_remote(node_no) of a local address is remote, not local, not
\* null, has that node number and the same group number and low 40 bits;
\* into_remote of a remote or null address returns it unchanged.
IntoRemoteSetsNode ==
    last.op = "into_remote" =>
        LET a == last.before
            r == last.res[1]
        IN  IF AddrIsLocal(a)
            THEN /\ AddrIsRemote(r) /\ ~AddrIsLocal(r) /\ ~AddrIsNull(r)
                 /\ AddrNodeNo(r) = Some(last.node_no)
                 /\ AddrGroupNo(r) = AddrGroupNo(a)
                 /\ LowBits(r, GROUP_NO_SHIFT) = LowBits(a, GROUP_NO_SHIFT)
            ELSE r = a

\* into_remote has been applied to a local address with nonzero slot bits
IntoRemoteSetsNodeWitness ==
    /\ last.op = "into_remote"
    /\ AddrIsLocal(last.before)
    /\ LowBits(last.before, GROUP_NO_SHIFT) # Zero64
    /\ cur # last.before

\* C7: NULL is the zero word, is null, neither local nor remote, has no group
\* and no node number, and into_local and into_remote map it to itself.
NullAbsorbing ==
    /\ AddrNULL = Zero64
    /\ cur = AddrNULL =>
          /\ AddrIsNull(cur) /\ ~AddrIsLocal(cur) /\ ~AddrIsRemote(cur)
          /\ AddrGroupNo(cur) = None /\ AddrNodeNo(cur) = None
    /\ (last.op \in {"into_local", "into_remote"} /\ last.before = AddrNULL)
          => last.res = Some(AddrNULL)

\* into_remote has been applied to NULL
NullAbsorbingWitness ==
    /\ last.op = "into_remote"
    /\ last.before = AddrNULL
    /\ last.node_no = 42
    /\ cur = AddrNULL

AddrWellFormed ==
    /\ AddrIsNull(cur) # (AddrGroupNo(cur) # None)
    /\ cur = AddrNULL \/ ShrU8(cur, GROUP_NO_SHIFT) # 0
    /\ ~AddrDisplayPanics(cur)
    /\ shown # None => ~shown[1].panicked
    /\ Cardinality({ p \in { <<"null", AddrIsNull(cur)>>,
                             <<"local", AddrIsLocal(cur)>>,
                             <<"remote", AddrIsRemote(cur)>> } : p[2] }) = 1

\* reached: a remote address was made local again and then printed
AddrWellFormedWitness ==
    /\ last.op = "into_local"
    /\ AddrIsRemote(last.before)
    /\ AddrIsLocal(cur)
    /\ shown # None
    /\ shown[1].text # <<>>

\* ------------------------------------------------------------ envelopes

\* the envelope reads neither the build feature nor the launch id
InitEnvelope ==
    /\ network = TRUE
    /\ launch_id = SaltLaunchId
    /\ InitIdle

IsRequest(e) == e.kind.variant \in { "RequestAny", "RequestAll" }

\* an actor is inserted under a free actor address, with an empty request table
Spawn(a) ==
    /\ book[a] = None
    /\ book' = [book EXCEPT ![a] = Some(ActorObject([r \in RequestIds |-> 0]))]
    /\ UNCHANGED <<network, launch_id, gn, group_set, made, slab, cur, last, env, result, routed, shown, chain, builder, letter>>

\* an actor is removed from the book
Kill(a) ==
    /\ book[a] # None
    /\ book' = [book EXCEPT ![a] = None]
    /\ UNCHANGED <<network, launch_id, gn, group_set, made, slab, cur, last, env, result, routed, shown, chain, builder, letter>>

\* a regular message is sent: Envelope::new(message, Regular { sender }).upcast()
SendRegular(sender, type) ==
    /\ env' = Some(EnvelopeUpcast(EnvelopeNew(Message(type, 0), MessageKindRegular(sender))))
    /\ result' = NoResult
    /\ UNCHANGED <<network, launch_id, gn, group_set, made, slab, cur, last, book, routed, shown, chain, builder, letter>>

\* a live actor opens a request in its table and sends it with the token
SendRequest(a, variant, id, type) ==
    /\ book[a] # None
    /\ book[a][1].requests[id] = 0
    /\ book' = [book EXCEPT ![a] = Some(ActorObject([book[a][1].requests EXCEPT ![id] = 1]))]
    /\ LET token == ResponseToken(a, id)
           kind == IF variant = "RequestAny" THEN MessageKindRequestAny(token)
                   ELSE MessageKindRequestAll(token)
       IN  env' = Some(EnvelopeUpcast(EnvelopeNew(Message(type, 0), kind)))
    /\ result' = NoResult
    /\ UNCHANGED <<network, launch_id, gn, group_set, made, slab, cur, last, routed, shown, chain, builder, letter>>

\* a request of a live actor is closed in its table
Resolve(a, id) ==
    /\ book[a] # None
    /\ book[a][1].requests[id] > 0
    /\ book' = [book EXCEPT ![a] = Some(ActorObject([book[a][1].requests EXCEPT ![id] = 0]))]
    /\ UNCHANGED <<network, launch_id, gn, group_set, made, slab, cur, last, env, result, routed, shown, chain, builder, letter>>

\* envelope.duplicate(book); a cloned token is counted in the sender's table
Duplicate ==
    /\ env # None
    /\ LET e == env[1]
           sender == IF IsRequest(e) THEN e.kind.token.sender ELSE e.kind.sender
           present == book[sender] # None
           actor == present /\ book[sender][1].kind = "Actor"
           open == actor /\ IsRequest(e)
                         /\ book[sender][1].requests[e.kind.token.request_id] > 0
           res == EnvelopeDuplicate(e, book)
       IN  /\ open => book[sender][1].requests[e.kind.token.request_id] < MaxExpected
           /\ result' = [ op |-> "duplicate", env |-> env, present |-> present,
                          actor |-> actor, open |-> open, panicked |-> FALSE, res |-> res ]
           /\ book' = IF IsRequest(e) /\ res # None
                      THEN [book EXCEPT ![sender] =
                              Some(ActorObject([book[sender][1].requests
                                                  EXCEPT ![e.kind.token.request_id] = @ + 1]))]
                      ELSE book
    /\ UNCHANGED <<network, launch_id, gn, group_set, made, slab, cur, last, env, routed, shown, chain, builder, letter>>

\* EnvelopeOwned::unpack_regular: the envelope is consumed
UnpackRegular ==
    /\ env # None
    /\ result' = [ op |-> "unpack_regular", env |-> env, present |-> FALSE,
                   actor |-> FALSE, open |-> FALSE,
                   panicked |-> UnpackRegularPanics(env[1]),
                   res |-> IF UnpackRegularPanics(env[1]) THEN None
                           ELSE Some(EnvelopeUnpackRegular(env[1])) ]
    /\ env' = None
    /\ UNCHANGED <<network, launch_id, gn, group_set, made, slab, cur, last, book, routed, shown, chain, builder, letter>>

\* EnvelopeBorrowed::unpack_regular: the envelope stays
UnpackRegularRef ==
    /\ env # None
    /\ result' = [ op |-> "unpack_regular_ref", env |-> env, present |-> FALSE,
                   actor |-> FALSE, open |-> FALSE,
                   panicked |-> UnpackRegularPanics(env[1]),
                   res |-> IF UnpackRegularPanics(env[1]) THEN None
                           ELSE Some(EnvelopeUnpackRegular(env[1])) ]
    /\ UNCHANGED <<network, launch_id, gn, group_set, made, slab, cur, last, book, env, routed, shown, chain, builder, letter>>

\* EnvelopeOwned::unpack_request: the envelope is consumed
UnpackRequest ==
    /\ env # None
    /\ result' = [ op |-> "unpack_request", env |-> env, present |-> FALSE,
                   actor |-> FALSE, open |-> FALSE,
                   panicked |-> UnpackRequestPanics(env[1]),
                   res |-> IF UnpackRequestPanics(env[1]) THEN None
                           ELSE Some(EnvelopeUnpackRequest(env[1])) ]
    /\ env' = None
    /\ UNCHANGED <<network, launch_id, gn, group_set, made, slab, cur, last, book, routed, shown, chain, builder, letter>>

NextEnvelope ==
    \/ \E a \in ActorAddrs : Spawn(a)
    \/ \E a \in ActorAddrs : Kill(a)
    \/ \E sender \in EnvAddrs, type \in MessageTypes : SendRegular(sender, type)
    \/ \E a \in ActorAddrs, variant \in { "RequestAny", "RequestAll" },
           id \in RequestIds, type \in MessageTypes : SendRequest(a, variant, id, type)
    \/ \E a \in ActorAddrs, id \in RequestIds : Resolve(a, id)
    \/ Duplicate
    \/ UnpackRegular
    \/ UnpackRegularRef
    \/ UnpackRequest

SpecEnvelope == InitEnvelope /\ [][NextEnvelope]_vars

\* C8: duplicate returns None iff the envelope is a request whose sender is
\* not in the book or whose request table refuses to clone the token; a copy it
\* returns has the trace id, the kind variant and the sender of the original.
DuplicateNoneIff ==
    result.op = "duplicate" =>
        LET e == result.env[1]
            refuses == result.actor /\ ~result.open
        IN  /\ (result.res = None) <=> (IsRequest(e) /\ (~result.present \/ refuses))
            /\ result.res # None =>
                  /\ result.res[1].trace_id = e.trace_id
                  /\ result.res[1].kind.variant = e.kind.variant
                  /\ EnvelopeSender(result.res[1]) = EnvelopeSender(e)

\* a request envelope has been duplicated after its sender left the book, and
\* there is no copy
DuplicateNoneIffWitness ==
    /\ result.op = "duplicate"
    /\ result.env[1].kind.variant = "RequestAll"
    /\ ~result.present
    /\ result.res = None

\* C9 as stated: unpack_request of a Regular envelope fails fatally, and so
\* does unpack_regular, owned or borrowed, of a request envelope.
UnpackOtherKindFails ==
    /\ (result.op = "unpack_request" /\ ~IsRequest(result.env[1])) => result.panicked
    /\ (result.op \in { "unpack_regular", "unpack_regular_ref" } /\ IsRequest(result.env[1]))
          => result.panicked

\* C9 as amended: unpack_request fails fatally exactly on a Regular envelope and
\* otherwise returns the payload and the token; unpack_regular, owned or
\* borrowed, never fails and returns the payload, also of a request envelope.
UnpackRequestChecksKind ==
    /\ result.op = "unpack_request" =>
          /\ result.panicked <=> ~IsRequest(result.env[1])
          /\ ~result.panicked =>
                result.res = Some(<< result.env[1].message, result.env[1].kind.token >>)
    /\ result.op \in { "unpack_regular", "unpack_regular_ref" } =>
          /\ ~result.panicked
          /\ result.res = Some(result.env[1].message)

\* unpack_request has failed on a Regular envelope
UnpackRequestChecksKindWitness ==
    /\ result.op = "unpack_request"
    /\ result.env[1].kind.variant = "Regular"
    /\ result.panicked
    /\ env = None

\* ------------------------------------------------------------ routing

\* the network group routes an envelope
Route(message, kind) ==
    /\ LET envelope == EnvelopeUpcast(EnvelopeNew(message, kind))
       IN  routed' = Remember(routed, [ env |-> envelope, outcome |-> NetworkRouter(envelope) ])
    /\ UNCHANGED <<network, launch_id, gn, group_set, made, slab, cur, last, book, env, result, shown, chain, builder, letter>>

NextRouter ==
    \E message \in RouterMessages : Route(message, MessageKindRegular(AddrNULL))

SpecRouter == InitEnvelope /\ [][NextRouter]_vars

IsHandleConnection(r) == r.env.message.type = "HandleConnection"

\* C10: every UpdateConfig goes to Unicast(Discovery), every HandleConnection
\* to Unicast(Worker) with the message's own local and remote group infos,
\* every other message to Default; equal messages get equal outcomes, and two
\* connections get the same worker key iff their (local, remote) pairs agree.
RouterByMessage ==
    /\ \A i \in DOMAIN routed :
          LET r == routed[i]
              m == r.env.message
          IN  /\ m.type = "UpdateConfig" =>
                    r.outcome = [ tag |-> "Unicast", key |-> [ tag |-> "Discovery" ] ]
              /\ m.type = "HandleConnection" =>
                    /\ r.outcome.tag = "Unicast"
                    /\ r.outcome.key.tag = "Worker"
                    /\ r.outcome.key.local = m.value.local
                    /\ r.outcome.key.remote = m.value.remote
              /\ m.type \notin { "UpdateConfig", "HandleConnection" } =>
                    r.outcome = [ tag |-> "Default" ]
    /\ \A i, j \in DOMAIN routed :
          /\ routed[i].env.message = routed[j].env.message
                => routed[i].outcome = routed[j].outcome
          /\ (IsHandleConnection(routed[i]) /\ IsHandleConnection(routed[j])) =>
                ( routed[i].outcome = routed[j].outcome
                  <=> /\ routed[i].env.message.value.local = routed[j].env.message.value.local
                      /\ routed[i].env.message.value.remote = routed[j].env.message.value.remote )

\* two connections with the same group infos in exchanged roles have been
\* routed to different workers
RouterByMessageWitness ==
    /\ Len(routed) = 2
    /\ IsHandleConnection(routed[1]) /\ IsHandleConnection(routed[2])
    /\ routed[1].env.message.value.local = routed[2].env.message.value.remote
    /\ routed[1].env.message.value.remote = routed[2].env.message.value.local
    /\ routed[1].env.message.value.local # routed[1].env.message.value.remote
    /\ routed[1].outcome # routed[2].outcome

\* ------------------------------------------------------------ error chains

\* format!("{}", ErrorChain(&error)) begins: the first write, then the cursor
ErrorChainFmt(names) ==
    /\ chain.pc \in { "idle", "done" }
    /\ LET error == ErrorOf(names)
       IN  chain' = [ pc |-> "loop", errors |-> names, cursor |-> Some(error),
                      out |-> ErrorChainWriteFirst(<<>>, error) ]
    /\ UNCHANGED <<network, launch_id, gn, group_set, made, slab, cur, last, book, env, result, routed, shown, builder, letter>>

\* one turn of while let Some(err) = cursor.source()
ErrorChainLoop ==
    /\ chain.pc = "loop"
    /\ chain.cursor[1].source # None
    /\ LET err == chain.cursor[1].source[1]
       IN  chain' = [ chain EXCEPT !.out = ErrorChainWrite(chain.out, err),
                                   !.cursor = Some(err) ]
    /\ UNCHANGED <<network, launch_id, gn, group_set, made, slab, cur, last, book, env, result, routed, shown, builder, letter>>

\* cursor.source() is None: Ok(())
ErrorChainReturn ==
    /\ chain.pc = "loop"
    /\ chain.cursor[1].source = None
    /\ chain' = [ chain EXCEPT !.pc = "done", !.cursor = None ]
    /\ UNCHANGED <<network, launch_id, gn, group_set, made, slab, cur, last, book, env, result, routed, shown, builder, letter>>

NextErrorChain ==
    \/ \E names \in ErrorChains : ErrorChainFmt(names)
    \/ ErrorChainLoop
    \/ ErrorChainReturn

\* a call of fmt that has begun runs on
SpecErrorChain ==
    /\ InitEnvelope
    /\ [][NextErrorChain]_vars
    /\ WF_vars(ErrorChainLoop \/ ErrorChainReturn)

\* C12: for any finite chain of causes e0 -> e1 -> ... -> en, Display of
\* ErrorChain terminates and writes the displays from the outermost to the
\* innermost joined by ": ", each cause once, with no separator before the
\* first or after the last; a single error is written as itself.
ErrorChainJoins ==
    /\ [](LET n == Len(chain.errors)
              out == chain.out
          IN  /\ chain.pc = "loop" =>
                    /\ Len(out) % 2 = 1
                    /\ Len(out) <= (2 * n) - 1
              /\ chain.pc = "done" => Len(out) = (2 * n) - 1
              /\ \A i \in 1..Len(out) :
                    out[i] = IF i % 2 = 1 THEN chain.errors[(i + 1) \div 2] ELSE ": "
              /\ (chain.pc = "done" /\ n = 1) => out = <<chain.errors[1]>>
              /\ (chain.pc = "done" /\ chain.errors = <<"outer", "inner", "innermost">>) =>
                    out = <<"outer", ": ", "inner", ": ", "innermost">>)
    /\ (chain.pc = "loop") ~> (chain.pc = "done")

\* reached: a chain of MaxChain causes, two of them displaying alike, has
\* been written to its end
ErrorChainJoinsWitness ==
    /\ chain.pc = "done"
    /\ Len(chain.errors) = MaxChain
    /\ chain.errors[1] = chain.errors[MaxChain]
    /\ Len(chain.out) = (2 * MaxChain) - 1

\* ------------------------------------------------------------ building a group

\* the policies of the group in hand
PoliciesOf(group) ==
    [ restart_policy |-> group.restart_policy,
      termination_policy |-> group.termination_policy ]

\* ActorGroup::new()
GroupNew ==
    /\ builder' = [ NoBuilder EXCEPT !.stage = "group", !.group = Some(ActorGroupNew),
                                     !.call = "new" ]
    /\ UNCHANGED <<network, launch_id, gn, group_set, made, slab, cur, last, book, env, result, routed, shown, chain, letter>>

\* group.config::<C1>()
GroupConfig(c1) ==
    /\ builder.stage = "group"
    /\ builder' = [ builder EXCEPT
                      !.group = Some(ActorGroupConfig(builder.group[1], c1)),
                      !.call = "config",
                      !.before = Some(PoliciesOf(builder.group[1])) ]
    /\ UNCHANGED <<network, launch_id, gn, group_set, made, slab, cur, last, book, env, result, routed, shown, chain, letter>>

\* group.restart_policy(policy)
GroupRestartPolicy(policy) ==
    /\ builder.stage = "group"
    /\ builder' = [ builder EXCEPT
                      !.group = Some(ActorGroupRestartPolicy(builder.group[1], policy)),
                      !.set_restart = Some(policy),
                      !.call = "restart_policy",
                      !.before = Some(PoliciesOf(builder.group[1])) ]
    /\ UNCHANGED <<network, launch_id, gn, group_set, made, slab, cur, last, book, env, result, routed, shown, chain, letter>>

\* group.termination_policy(policy)
GroupTerminationPolicy(policy) ==
    /\ builder.stage = "group"
    /\ builder' = [ builder EXCEPT
                      !.group = Some(ActorGroupTerminationPolicy(builder.group[1], policy)),
                      !.set_termination = Some(policy),
                      !.call = "termination_policy",
                      !.before = Some(PoliciesOf(builder.group[1])) ]
    /\ UNCHANGED <<network, launch_id, gn, group_set, made, slab, cur, last, book, env, result, routed, shown, chain, letter>>

\* group.router(r1)
GroupRouter(r1) ==
    /\ builder.stage = "group"
    /\ builder' = [ builder EXCEPT
                      !.group = Some(ActorGroupRouter(builder.group[1], r1)),
                      !.call = "router",
                      !.before = Some(PoliciesOf(builder.group[1])) ]
    /\ UNCHANGED <<network, launch_id, gn, group_set, made, slab, cur, last, book, env, result, routed, shown, chain, letter>>

\* group.exec(exec): the group is moved into the Blueprint
GroupExec ==
    /\ builder.stage = "group"
    /\ builder' = [ builder EXCEPT
                      !.stage = "blueprint",
                      !.group = None,
                      !.blueprint = Some(ActorGroupExec(builder.group[1], "exec")) ]
    /\ UNCHANGED <<network, launch_id, gn, group_set, made, slab, cur, last, book, env, result, routed, shown, chain, letter>>

\* the Blueprint is run, once: its closure makes the Supervisor
GroupRun ==
    /\ builder.stage = "blueprint"
    /\ builder' = [ builder EXCEPT
                      !.stage = "running",
                      !.blueprint = None,
                      !.sv = Some(BlueprintRun(builder.blueprint[1])) ]
    /\ UNCHANGED <<network, launch_id, gn, group_set, made, slab, cur, last, book, env, result, routed, shown, chain, letter>>

NextGroup ==
    \/ GroupNew
    \/ \E c1 \in Configs : GroupConfig(c1)
    \/ \E policy \in RestartPolicies : GroupRestartPolicy(policy)
    \/ \E policy \in TerminationPolicies : GroupTerminationPolicy(policy)
    \/ \E r1 \in Routers : GroupRouter(r1)
    \/ GroupExec
    \/ GroupRun

SpecGroup == InitEnvelope /\ [][NextGroup]_vars

\* C14: after any sequence of builder calls ended by exec, the Supervisor made
\* when the Blueprint is run is handed the restart policy of the last
\* restart_policy() call and the termination policy of the last
\* termination_policy() call, or the defaults (RestartPolicy::on_failures;
\* TerminationPolicy::closing, stop_spawning and close_mailbox both true) if
\* there was no such call; config() and router() leave both policies as they
\* were, in any order.
PoliciesReachSupervisor ==
    LET restart == IF builder.set_restart = None THEN [ mode |-> "OnFailures" ]
                   ELSE builder.set_restart[1]
        termination == IF builder.set_termination = None
                       THEN [ stop_spawning |-> TRUE, close_mailbox |-> TRUE ]
                       ELSE builder.set_termination[1]
    IN  /\ builder.stage = "running" =>
              /\ builder.sv[1].restart_policy = restart
              /\ builder.sv[1].termination_policy = termination
        /\ builder.stage = "blueprint" =>
              /\ builder.blueprint[1].run.group.restart_policy = restart
              /\ builder.blueprint[1].run.group.termination_policy = termination
        /\ builder.stage = "group" =>
              /\ builder.group[1].restart_policy = restart
              /\ builder.group[1].termination_policy = termination
              /\ builder.call \in { "config", "router" } =>
                    PoliciesOf(builder.group[1]) = builder.before[1]

\* reached: a Supervisor made for a group whose policies and router were all
\* set, the router last, as the network group does
PoliciesReachSupervisorWitness ==
    /\ builder.stage = "running"
    /\ builder.call = "router"
    /\ builder.sv[1].router = "MapRouter"
    /\ builder.sv[1].restart_policy = RestartPolicyNever
    /\ builder.sv[1].termination_policy = TerminationPolicyManually

\* ------------------------------------------------------------ the payload of an envelope

\* Envelope::new(message, kind): a typed envelope
LetterNew(type, value, kind) ==
    /\ LET e == EnvelopeNew(Message(type, value), kind)
       IN  letter' = [ e |-> Some(e), made |-> Some(e), call |-> "new", panicked |-> FALSE ]
    /\ UNCHANGED <<network, launch_id, gn, group_set, made, slab, cur, last, book, env, result, routed, shown, chain, builder>>

\* envelope.upcast(), of a typed envelope
LetterUpcast ==
    /\ letter.e # None
    /\ ~letter.e[1].message.erased
    /\ letter' = [ letter EXCEPT !.e = Some(EnvelopeUpcast(letter.e[1])), !.call = "upcast" ]
    /\ UNCHANGED <<network, launch_id, gn, group_set, made, slab, cur, last, book, env, result, routed, shown, chain, builder>>

\* envelope.do_downcast::<M>(), of an erased envelope: a typed envelope, or
\* the panic of expect("cannot downcast"), the envelope lost
LetterDoDowncast(type) ==
    /\ letter.e # None
    /\ letter.e[1].message.erased
    /\ letter' = IF EnvelopeDoDowncastPanics(letter.e[1], type)
                 THEN [ e |-> None, made |-> None, call |-> "do_downcast", panicked |-> TRUE ]
                 ELSE [ letter EXCEPT !.e = Some(EnvelopeDoDowncast(letter.e[1], type)),
                                      !.call = "do_downcast" ]
    /\ UNCHANGED <<network, launch_id, gn, group_set, made, slab, cur, last, book, env, result, routed, shown, chain, builder>>

\* envelope.set_message(message), of an erased envelope
LetterSetMessage(type, value) ==
    /\ letter.e # None
    /\ letter.e[1].message.erased
    /\ letter' = [ letter EXCEPT
                     !.e = Some(EnvelopeSetMessage(letter.e[1], Message(type, value))),
                     !.call = "set_message" ]
    /\ UNCHANGED <<network, launch_id, gn, group_set, made, slab, cur, last, book, env, result, routed, shown, chain, builder>>

NextLetter ==
    \/ \E type \in MessageTypes, value \in MessageValues, kind \in MessageKinds :
          LetterNew(type, value, kind)
    \/ LetterUpcast
    \/ \E type \in MessageTypes : LetterDoDowncast(type)
    \/ \E type \in MessageTypes, value \in MessageValues : LetterSetMessage(type, value)

SpecLetter == InitEnvelope /\ [][NextLetter]_vars

\* C15: the trace id, the variant of the kind and sender() of an envelope are
\* those it was made with after any sequence of upcast, do_downcast (to the
\* type of the payload) and set_message; sender() is the sender field of a
\* Regular kind and the sender of the token of a RequestAny or RequestAll kind.
EnvelopeFrame ==
    letter.e # None =>
        LET e == letter.e[1]
            e0 == letter.made[1]
        IN  /\ e.trace_id = e0.trace_id
            /\ e.kind.variant = e0.kind.variant
            /\ EnvelopeSender(e) = EnvelopeSender(e0)
            /\ e.kind.variant = "Regular" =>
                  /\ EnvelopeSender(e) = e.kind.sender
                  /\ e0.kind.sender = e.kind.sender
            /\ e.kind.variant \in { "RequestAny", "RequestAll" } =>
                  /\ EnvelopeSender(e) = e.kind.token.sender
                  /\ e0.kind.token.sender = e.kind.token.sender

\* reached: a RequestAll envelope, typed again by do_downcast after its
\* payload was replaced by one of the other type
EnvelopeFrameWitness ==
    /\ letter.e # None
    /\ letter.call = "do_downcast"
    /\ letter.e[1].kind.variant = "RequestAll"
    /\ ~letter.e[1].message.erased
    /\ letter.e[1].message.type # letter.made[1].message.type

====
